---- MODULE Spec2Model ----
(***************************************************************************)
(* Brute-force graph colouring (src/brute_force_colourings.py).            *)
(*                                                                         *)
(* Two searches for a proper vertex colouring with the fewest colours:     *)
(* product_brute_force_colouring walks itertools.product for the colour    *)
(* counts 1, 2, ..., custom_brute_force_colouring counts in a variable     *)
(* base system.  Both share validate_colouring and colouring_list_to_dict. *)
(*                                                                         *)
(* Spec     : the driver of src/main.py calls the product search and then  *)
(*            the custom search on one graph; one step per loop iteration. *)
(* SpecGen  : create_options and colouring_generator, enumerated over all  *)
(*            indices of one (colours, size) pair.                         *)
(* SpecDict : colouring_list_to_dict called on arbitrary argument lists.   *)
(***************************************************************************)
EXTENDS Integers, Sequences, FiniteSets

\* ---- bounds of the model ------------------------------------------------
\* Largest number of vertices of the graph handed to the searches.
MaxN == 3
\* The product search's `while True` has no exit; the model stops following
\* it once the for-loop of this colour count is used up.
MaxColours == 3
\* Largest graph size of the enumeration checked in SpecGen.
GenMaxSize == 5
\* Longest argument list handed to colouring_list_to_dict in SpecDict.
MaxLen == 3

VARIABLES
    size,          \* len(G)
    edges,         \* G.edges(): a set of pairs <<u, v>>, u <= v, of nodes 0..size-1
    call,          \* which call of the driver is running
    p_pc,          \* product search: "while", "for", "done", "cutoff"
    p_colours,     \* product search: colours
    p_iter,        \* product search: the iterator `colourings`; << >> when used up,
                   \*   else <<t>> with t the tuple it yields next
    p_result,      \* product search: the dict it returned
    p_generated,   \* history: p_generated[k] = tuples the for-loop of colour count k drew
    p_validated,   \* history: the <<tuple, k>> handed to validate_colouring
    c_pc,          \* custom search: "while", "for", "done", "none"
    c_colours,     \* custom search: colours
    c_options,     \* custom search: options
    c_number,      \* custom search: number_colourings
    c_counter,     \* custom search: counter of the for-loop
    c_result,      \* custom search: the dict it returned
    c_generated,   \* history: c_generated[k] = lists the for-loop of colour count k built
    g_colours,     \* SpecGen: colours
    g_size,        \* SpecGen: size
    g_index,       \* SpecGen: the next colouring_index
    g_out,         \* SpecGen: the lists generated so far, in order
    d_pc,          \* SpecDict: "call" before the call, "returned" after it
    d_list,        \* SpecDict: the argument colouring_list
    d_vertices,    \* SpecDict: the argument vertices
    d_result       \* SpecDict: what the call did: raised, or the dict returned

searchVars == <<size, edges, call, p_pc, p_colours, p_iter, p_result, p_generated,
                p_validated, c_pc, c_colours, c_options, c_number, c_counter,
                c_result, c_generated>>
genVars == <<g_colours, g_size, g_index, g_out>>
dictVars == <<d_pc, d_list, d_vertices, d_result>>
vars == <<searchVars, genVars, dictVars>>

\* ---- helpers ------------------------------------------------------------
Range(s) == {s[i] : i \in 1..Len(s)}

Max(S) == CHOOSE x \in S : \A y \in S : y <= x

\* list.reverse()
reverse(s) == [i \in 1..Len(s) |-> s[Len(s) + 1 - i]]

\* list(G): the nodes 0..size-1 in order
vertices_of(n) == [i \in 1..n |-> i - 1]

\* ---- shared functions ---------------------------------------------------
validate_colouring_any(E, colouring) ==
    E = {} \/ \E edge \in E : colouring[edge[1]] # colouring[edge[2]]

validate_colouring(E, colouring) ==
    \A edge \in E : colouring[edge[1]] # colouring[edge[2]]

\* The comprehension runs counter over range(len(colouring_list)) and reads
\* vertices[counter]: a colouring_list longer than vertices raises IndexError,
\* a shorter one leaves the later vertices out.  A key written twice keeps
\* the last value.
colouring_list_to_dict_over_vertices(colouring_list, vertices) ==
    IF Len(vertices) > Len(colouring_list)
    THEN [raised |-> TRUE, dict |-> << >>]
    ELSE [raised |-> FALSE,
          dict |-> [v \in {vertices[i] : i \in 1..Len(vertices)} |->
                      colouring_list[Max({i \in 1..Len(vertices) : vertices[i] = v})]]]

colouring_list_to_dict(colouring_list, vertices) ==
    IF Len(colouring_list) > Len(vertices)
    THEN [raised |-> TRUE, dict |-> << >>]
    ELSE [raised |-> FALSE,
          dict |-> [v \in {vertices[i] : i \in 1..Len(colouring_list)} |->
                      colouring_list[Max({i \in 1..Len(colouring_list) : vertices[i] = v})]]]

\* ---- itertools.product(range(colours), repeat=size) ---------------------
\* The first tuple: all zeros (for size = 0 the one empty tuple).
product_first(colours, n) == << [i \in 1..n |-> 0] >>

\* The iterator after yielding tuple t: the rightmost position below
\* colours - 1 goes up by one and the positions after it go back to 0.
product_advance(t, colours) ==
    LET I == {i \in 1..Len(t) : t[i] < colours - 1}
    IN  IF I = {} THEN << >>
        ELSE LET j == Max(I)
             IN  << [i \in 1..Len(t) |->
                        IF i < j THEN t[i] ELSE IF i = j THEN t[i] + 1 ELSE 0] >>

\* ---- custom brute force helpers ------------------------------------------
create_options_uncapped(colours, n) == [i \in 1..n |-> colours]

create_options_ones(colours, n) ==
    [i \in 1..colours |-> i]
        \o [i \in 1..(IF n - colours > 0 THEN n - colours ELSE 0) |-> 1]

\* options_0 = [1..colours]; options_1 = [colours] * (size - len(options_0)),
\* which is the empty list when the factor is negative.
create_options(colours, n) ==
    [i \in 1..colours |-> i]
        \o [i \in 1..(IF n - colours > 0 THEN n - colours ELSE 0) |-> colours]

RECURSIVE generator_loop(_, _, _, _)
generator_loop(colouring_index, options, counter, colouring_list) ==
    IF counter < 1 THEN colouring_list
    ELSE generator_loop(colouring_index \div options[counter], options, counter - 1,
                        Append(colouring_list, colouring_index % options[counter]))

RECURSIVE generator_loop_forward(_, _, _, _)
generator_loop_forward(colouring_index, options, counter, colouring_list) ==
    IF counter > Len(options) THEN colouring_list
    ELSE generator_loop_forward(colouring_index \div options[counter], options,
                                counter + 1,
                                Append(colouring_list, colouring_index % options[counter]))

colouring_generator_forward(colouring_index, options) ==
    reverse(generator_loop_forward(colouring_index, options, 1, << >>))

colouring_generator_no_reverse(colouring_index, options) ==
    generator_loop(colouring_index, options, Len(options), << >>)

colouring_generator(colouring_index, options) ==
    reverse(generator_loop(colouring_index, options, Len(options), << >>))

check_all_colours_without_set(colours, colouring_list) ==
    Len(colouring_list) = colours

check_all_colours_in_colouring_list(colours, colouring_list) ==
    Cardinality(Range(colouring_list)) = colours

\* number_colourings = 1; for option in options: number_colourings *= option
RECURSIVE number_colourings(_)
number_colourings(options) ==
    IF options = << >> THEN 1
    ELSE Head(options) * number_colourings(Tail(options))

\* ---- Spec: the driver and the two searches --------------------------------
GenIdle == g_colours = 1 /\ g_size = 1 /\ g_index = 0 /\ g_out = << >>
DictIdle ==
    /\ d_pc = "call" /\ d_list = << >> /\ d_vertices = << >>
    /\ d_result = [raised |-> FALSE, dict |-> << >>]

SearchStart ==
    /\ call = "product"
    /\ p_pc = "while" /\ p_colours = 1 /\ p_iter = << >> /\ p_result = << >>
    /\ p_generated = << >> /\ p_validated = {}
    /\ c_pc = "while" /\ c_colours = 1 /\ c_options = << >> /\ c_number = 0
    /\ c_counter = 0 /\ c_result = << >> /\ c_generated = << >>

Init ==
    /\ size \in 0..MaxN
    /\ edges \in SUBSET {e \in (0..(size - 1)) \X (0..(size - 1)) : e[1] <= e[2]}
    /\ SearchStart
    /\ GenIdle
    /\ DictIdle

\* product search, line 74: a fresh iterator for the current colour count
ProductWhile ==
    /\ call = "product" /\ p_pc = "while"
    /\ p_iter' = product_first(p_colours, size)
    /\ p_generated' = Append(p_generated, 0)
    /\ p_pc' = "for"
    /\ UNCHANGED <<size, edges, call, p_colours, p_result, p_validated,
                   c_pc, c_colours, c_options, c_number, c_counter, c_result, c_generated>>
    /\ UNCHANGED <<genVars, dictVars>>

\* product search, lines 75-86: one pass of the for-loop
ProductCandidate ==
    /\ call = "product" /\ p_pc = "for" /\ p_iter # << >>
    /\ LET colouring_option == p_iter[1]
           made == colouring_list_to_dict(colouring_option, vertices_of(size))
       IN  /\ p_generated' = [p_generated EXCEPT ![p_colours] = @ + 1]
           /\ p_iter' = product_advance(colouring_option, p_colours)
           /\ IF (p_colours - 1) \in Range(colouring_option)
              THEN /\ p_validated' = p_validated \cup {<<colouring_option, p_colours>>}
                   /\ IF made.raised
                      THEN p_pc' = "raised" /\ call' = "custom" /\ p_result' = p_result
                      ELSE IF validate_colouring(edges, made.dict)
                           THEN p_pc' = "done" /\ call' = "custom" /\ p_result' = made.dict
                           ELSE UNCHANGED <<p_pc, call, p_result>>
              ELSE UNCHANGED <<p_validated, p_pc, call, p_result>>
    /\ UNCHANGED <<size, edges, p_colours,
                   c_pc, c_colours, c_options, c_number, c_counter, c_result, c_generated>>
    /\ UNCHANGED <<genVars, dictVars>>

\* product search, line 90: the for-loop is used up
ProductNextColours ==
    /\ call = "product" /\ p_pc = "for" /\ p_iter = << >>
    /\ p_colours < MaxColours
    /\ p_colours' = p_colours + 1
    /\ p_pc' = "while"
    /\ UNCHANGED <<size, edges, call, p_iter, p_result, p_generated, p_validated,
                   c_pc, c_colours, c_options, c_number, c_counter, c_result, c_generated>>
    /\ UNCHANGED <<genVars, dictVars>>

\* The model follows the product search no further than MaxColours.
ProductCutOff ==
    /\ call = "product" /\ p_pc = "for" /\ p_iter = << >>
    /\ p_colours = MaxColours
    /\ p_pc' = "cutoff"
    /\ call' = "custom"
    /\ UNCHANGED <<size, edges, p_colours, p_iter, p_result, p_generated, p_validated,
                   c_pc, c_colours, c_options, c_number, c_counter, c_result, c_generated>>
    /\ UNCHANGED <<genVars, dictVars>>

\* custom search, lines 168-188: the guard, the options and number_colourings
CustomWhile ==
    /\ call = "custom" /\ c_pc = "while"
    /\ IF c_colours <= size
       THEN /\ c_options' = create_options(c_colours, size)
            /\ c_number' = number_colourings(create_options(c_colours, size))
            /\ c_counter' = 0
            /\ c_generated' = Append(c_generated, 0)
            /\ c_pc' = "for"
            /\ UNCHANGED call
       ELSE /\ c_pc' = "none"
            /\ call' = "finished"
            /\ UNCHANGED <<c_options, c_number, c_counter, c_generated>>
    /\ UNCHANGED <<size, edges, p_pc, p_colours, p_iter, p_result, p_generated,
                   p_validated, c_colours, c_result>>
    /\ UNCHANGED <<genVars, dictVars>>

\* custom search, lines 191-205: one pass of the for-loop
CustomCandidate ==
    /\ call = "custom" /\ c_pc = "for" /\ c_counter < c_number
    /\ LET colouring_list == colouring_generator(c_counter, c_options)
           made == colouring_list_to_dict(colouring_list, vertices_of(size))
       IN  /\ c_generated' = [c_generated EXCEPT ![c_colours] = @ + 1]
           /\ c_counter' = c_counter + 1
           /\ IF check_all_colours_in_colouring_list(c_colours, colouring_list)
              THEN IF made.raised
                   THEN c_pc' = "raised" /\ call' = "finished" /\ c_result' = c_result
                   ELSE IF validate_colouring(edges, made.dict)
                        THEN c_pc' = "done" /\ call' = "finished" /\ c_result' = made.dict
                        ELSE UNCHANGED <<c_pc, call, c_result>>
              ELSE UNCHANGED <<c_pc, call, c_result>>
    /\ UNCHANGED <<size, edges, p_pc, p_colours, p_iter, p_result, p_generated,
                   p_validated, c_colours, c_options, c_number>>
    /\ UNCHANGED <<genVars, dictVars>>

\* custom search, line 209: the for-loop is used up
CustomNextColours ==
    /\ call = "custom" /\ c_pc = "for" /\ c_counter = c_number
    /\ c_colours' = c_colours + 1
    /\ c_pc' = "while"
    /\ UNCHANGED <<size, edges, call, p_pc, p_colours, p_iter, p_result, p_generated,
                   p_validated, c_options, c_number, c_counter, c_result, c_generated>>
    /\ UNCHANGED <<genVars, dictVars>>

Next ==
    \/ ProductWhile
    \/ ProductCandidate
    \/ ProductNextColours
    \/ ProductCutOff
    \/ CustomWhile
    \/ CustomCandidate
    \/ CustomNextColours

Spec == Init /\ [][Next]_vars


\* ---- what the claims speak of ---------------------------------------------
NoSelfLoops == \A e \in edges : e[1] # e[2]

\* the number of distinct colours of a dict
colours_used(colouring) == Cardinality({colouring[v] : v \in DOMAIN colouring})

Nodes == 0..(size - 1)

\* colouring is a dict over all nodes of G whose edges all join two colours
IsProper(colouring) ==
    /\ DOMAIN colouring = Nodes
    /\ \A e \in edges : colouring[e[1]] # colouring[e[2]]

\* some proper colouring of G with colours {0..k-1} exists
HasProper(k) == \E f \in [Nodes -> 0..(k - 1)] : IsProper(f)

\* the colours of a dict in the order of list(G)
AsList(colouring) == [i \in 1..size |-> colouring[i - 1]]

LexLess(a, b) ==
    \E i \in 1..Len(a) : a[i] < b[i] /\ \A j \in 1..(i - 1) : a[j] = b[j]

\* the first entry is 0 and no entry is more than one above all entries before it
IsRestrictedGrowth(l) ==
    \A i \in 1..Len(l) : \A c \in 0..(l[i] - 1) : \E j \in 1..(i - 1) : l[j] = c

ProductReturned == p_pc = "done"
CustomReturned == c_pc = "done"

\* the for-loop of colour count k of the custom search has ended
CustomLoopOver(k) ==
    \/ c_colours > k
    \/ c_colours = k /\ c_pc = "done"
    \/ c_colours = k /\ c_pc = "for" /\ c_counter = c_number

\* the custom search left colour count k without returning
CustomLoopFailed(k) ==
    \/ c_colours > k
    \/ c_colours = k /\ c_pc = "for" /\ c_counter = c_number

\* C1. Validity: a colouring returned by either search gives the two ends of
\* every edge of G different colours.
C1_Validity ==
    /\ ProductReturned => IsProper(p_result)
    /\ CustomReturned => IsProper(c_result)

C1_Witness ==
    /\ call = "finished" /\ ProductReturned /\ CustomReturned
    /\ Cardinality(edges) >= 2
    /\ colours_used(p_result) = 2

\* C2. Minimality: a colouring returned by either search uses no more distinct
\* colours than any k for which a proper colouring with colours {0..k-1}
\* exists, and the custom search has never gone past a colour count at which
\* one exists.
C2_Minimality ==
    /\ ProductReturned =>
         \A k \in 0..MaxN : HasProper(k) => colours_used(p_result) <= k
    /\ CustomReturned =>
         \A k \in 0..MaxN : HasProper(k) => colours_used(c_result) <= k
    /\ call # "product" => \A k \in 1..(c_colours - 1) : ~HasProper(k)

C2_Witness ==
    /\ call = "finished" /\ ProductReturned /\ CustomReturned
    /\ size = 3 /\ Cardinality(edges) = 2
    /\ colours_used(c_result) = 2 /\ colours_used(p_result) = 2

\* C3 (as claimed). On a graph without self-loops the product search never
\* uses up the for-loop of a colour count k >= size without returning: it
\* returns while colours <= size.
C3_ProductReturnsBySize ==
    [][(NoSelfLoops /\ p_colours' # p_colours) => p_colours < size]_vars

\* C4 (as claimed). On a graph without self-loops the custom search never
\* takes the `colours > size` branch that returns None, and returns at a
\* colour count <= size.
C4_GuardUnreachable ==
    NoSelfLoops => /\ c_pc # "none"
                   /\ CustomReturned => c_colours <= size

\* C5. Equivalence: when both searches return a colouring of the same graph,
\* the two use the same number of distinct colours and were found at the
\* same colour count.
C5_SameColourCount ==
    (ProductReturned /\ CustomReturned) =>
        /\ colours_used(p_result) = colours_used(c_result)
        /\ p_colours = c_colours

C5_Witness ==
    /\ ProductReturned /\ CustomReturned
    /\ colours_used(p_result) = 3 /\ colours_used(c_result) = 3

\* C7 (as claimed). For every colour count k >= 2 both searches went through,
\* the custom search built strictly fewer candidates at k than the product
\* search drew at k.
C7_StrictlyFewer ==
    \A k \in 2..Len(c_generated) :
        (k <= Len(p_generated) /\ CustomLoopOver(k)) =>
            c_generated[k] < p_generated[k]

\* C7 (amended). For every colour count k >= 2 both searches went through,
\* the custom search built no more candidates at k than the product search
\* drew at k, and strictly fewer when it did not return at k.
C7_NoMoreCandidates ==
    \A k \in 2..Len(c_generated) :
        (k <= Len(p_generated) /\ CustomLoopOver(k)) =>
            /\ c_generated[k] <= p_generated[k]
            /\ CustomLoopFailed(k) => c_generated[k] < p_generated[k]

C7_Witness ==
    /\ call = "finished" /\ CustomReturned /\ c_colours = 3
    /\ c_generated[2] < p_generated[2]
    /\ c_generated[3] <= p_generated[3]

\* C8 (as claimed). Every tuple the product search skips at colour count k
\* for lacking k-1 was handed to validate_colouring at a smaller colour
\* count of the same run, and no tuple is validated at two colour counts.
C8_PruningLosesNothing ==
    /\ [](\A a \in p_validated : \A b \in p_validated : a[1] = b[1] => a[2] = b[2])
    /\ [][(/\ call = "product" /\ p_pc = "for" /\ p_iter # << >>
           /\ p_generated' # p_generated
           /\ (p_colours - 1) \notin Range(p_iter[1]))
          => \E v \in p_validated : v[1] = p_iter[1] /\ v[2] < p_colours]_vars

\* C10. On a graph with at least one vertex and no self-loops (and no more
\* vertices than the colour counts the model follows) both searches return,
\* and return the same dict: the lexicographically smallest proper colouring
\* over {0..k-1} for the smallest k that has one, which starts with colour 0
\* and never goes more than one above the colours before.
C10_SameColouring ==
    (NoSelfLoops /\ size >= 1 /\ size <= MaxColours /\ call = "finished") =>
        /\ ProductReturned /\ CustomReturned
        /\ p_result = c_result
        /\ IsProper(c_result)
        /\ \A v \in Nodes : c_result[v] \in 0..(c_colours - 1)
        /\ ~HasProper(c_colours - 1)
        /\ \A f \in [Nodes -> 0..(c_colours - 1)] :
               IsProper(f) => ~LexLess(AsList(f), AsList(c_result))
        /\ IsRestrictedGrowth(AsList(c_result))

C10_Witness ==
    /\ call = "finished" /\ NoSelfLoops /\ size = 3
    /\ ProductReturned /\ CustomReturned
    /\ AsList(c_result) = <<0, 1, 0>>
    /\ AsList(p_result) = <<0, 1, 0>>


\* ---- SpecGen: the variable base enumeration -------------------------------
SearchIdle == size = 0 /\ edges = {} /\ SearchStart

InitGen ==
    /\ g_size \in 1..GenMaxSize
    /\ g_colours \in 1..g_size
    /\ g_index = 0
    /\ g_out = << >>
    /\ SearchIdle
    /\ DictIdle

\* custom search, lines 191-194, with nothing returning: the next counter's list
Generate ==
    /\ g_index < number_colourings(create_options(g_colours, g_size))
    /\ g_out' = Append(g_out, colouring_generator(g_index, create_options(g_colours, g_size)))
    /\ g_index' = g_index + 1
    /\ UNCHANGED <<g_colours, g_size>>
    /\ UNCHANGED <<searchVars, dictVars>>

NextGen == Generate

SpecGen == InitGen /\ [][NextGen]_vars

\* the bound of position i (counted from 1) the claim gives: min(i, colours)
BoundAt(i) == IF i < g_colours THEN i ELSE g_colours

\* every list of g_size digits with digit i below its bound
AllDigitLists ==
    {d \in [1..g_size -> 0..(g_colours - 1)] : \A i \in 1..g_size : d[i] < BoundAt(i)}

\* C9. For 1 <= colours <= size, create_options gives size bounds, bound i
\* being min(i, colours) counted from 1; the lists colouring_generator makes
\* for index 0, 1, ... stay below the bounds and come in strictly increasing
\* lexicographic order, and once every index below the product of the bounds
\* is used, they are exactly all the lists below the bounds.  colours 3 and
\* size 5 give <<1,2,3,3,3>> and 54; options <<1,2,3>> and index 5 give <<0,1,2>>.
C9_MixedRadixBijection ==
    LET options == create_options(g_colours, g_size)
        total == number_colourings(options)
    IN  /\ Len(options) = g_size
        /\ \A i \in 1..g_size : options[i] = BoundAt(i)
        /\ \A j \in 1..Len(g_out) : g_out[j] \in AllDigitLists
        /\ \A j \in 1..(Len(g_out) - 1) : LexLess(g_out[j], g_out[j + 1])
        /\ g_index = total =>
              /\ Len(g_out) = total
              /\ Range(g_out) = AllDigitLists
              /\ Cardinality(AllDigitLists) = total
        /\ (g_colours = 3 /\ g_size = 5) => (options = <<1, 2, 3, 3, 3>> /\ total = 54)
        /\ (g_colours = 3 /\ g_size = 3 /\ g_index >= 6) => g_out[6] = <<0, 1, 2>>

C9_Witness ==
    /\ g_colours = 3 /\ g_size = 5 /\ g_index = 54
    /\ g_out[54] = <<0, 1, 2, 2, 2>>

\* ---- SpecDict: colouring_list_to_dict on any argument lists ----------------
\* lists of at most MaxLen entries of S
ListsOver(S) == UNION {[1..l -> S] : l \in 0..MaxLen}

\* vertices is list(G): no node twice
VertexLists ==
    {vs \in ListsOver(0..(MaxLen - 1)) :
        \A i \in 1..Len(vs) : \A j \in 1..Len(vs) : vs[i] = vs[j] => i = j}

InitDict ==
    /\ d_pc = "call"
    /\ d_list \in ListsOver(0..(MaxLen - 1))
    /\ d_vertices \in VertexLists
    /\ d_result = [raised |-> FALSE, dict |-> << >>]
    /\ SearchIdle
    /\ GenIdle

DictCall ==
    /\ d_pc = "call"
    /\ d_result' = colouring_list_to_dict(d_list, d_vertices)
    /\ d_pc' = "returned"
    /\ UNCHANGED <<d_list, d_vertices>>
    /\ UNCHANGED <<searchVars, genVars>>

NextDict == DictCall

SpecDict == InitDict /\ [][NextDict]_vars

\* the dict pairs vertices[i] with colouring_list[i] for the first m positions
PairsFirst(m) ==
    /\ DOMAIN d_result.dict = {d_vertices[i] : i \in 1..m}
    /\ \A i \in 1..m : d_result.dict[d_vertices[i]] = d_list[i]

====
